---- MODULE Spec2Model ----
(***************************************************************************)
(* Model of whisper-fine-tuning-event/run_eval_whisper.py: the evaluation  *)
(* loop of main(), the helpers get_text, normalise, is_target_text_in_range*)
(* and data, and the behaviour of the three library calls the script rests *)
(* on (BasicTextNormalizer, the ASR pipeline, the "wer" metric).           *)
(*                                                                         *)
(* A string is a sequence of atoms.  An atom is one character ("x" a lower *)
(* case letter, "X" its upper case, " " white space, "_" punctuation, the  *)
(* brackets) or one of the letter runs that spell the scoring sentinel.    *)
(* No two distinct atom sequences spell the same string.                   *)
(***************************************************************************)
EXTENDS Integers, Sequences, FiniteSets, TLC

VARIABLES args, hub, pc, i, forced_decoder_ids, dataset, predictions,
          references, k, stdout, error, run, prev, gt_sample, gt_result

vars == <<args, hub, pc, i, forced_decoder_ids, dataset, predictions,
          references, k, stdout, error, run, prev, gt_sample, gt_result>>

\* ------------------------------------------------------------------ bounds
\* longest --languages and --configs lists
MaxArgs == 2
\* most rows in the dataset configuration that is left free
MaxSamples == 2

\* ----------------------------------------------------------------- strings
None == "None"

\* str.lower on one atom
LowerAtom(c) ==
    CASE c = "X" -> "x"
      [] c = "IGNORE" -> "ignore"
      [] c = "SCORING" -> "scoring"
      [] OTHER -> c

Lower(s) == [j \in 1..Len(s) |-> LowerAtom(s[j])]

IsSpace(c) == c = " "

\* Unicode categories M, S and P: the characters remove_symbols blanks out
IsSymbol(c) == c \in {"_", "(", ")", "[", "]"}

\* position of the first atom of s at or after n that belongs to S, 0 if none
RECURSIVE FirstIn(_, _, _)
FirstIn(s, n, S) ==
    IF n > Len(s) THEN 0
    ELSE IF s[n] \in S THEN n
    ELSE FirstIn(s, n + 1, S)

\* re.sub(r"[<\[][^>\]]*[>\]]", "", s)
RECURSIVE RemoveBrackets(_)
RemoveBrackets(s) ==
    IF s = <<>> THEN <<>>
    ELSE IF s[1] = "[" /\ FirstIn(s, 2, {"]"}) # 0
         THEN RemoveBrackets(SubSeq(s, FirstIn(s, 2, {"]"}) + 1, Len(s)))
         ELSE <<s[1]>> \o RemoveBrackets(Tail(s))

\* re.sub(r"\(([^)]+?)\)", "", s)
RECURSIVE RemoveParens(_)
RemoveParens(s) ==
    IF s = <<>> THEN <<>>
    ELSE IF s[1] = "(" /\ FirstIn(s, 2, {")"}) > 2
         THEN RemoveParens(SubSeq(s, FirstIn(s, 2, {")"}) + 1, Len(s)))
         ELSE <<s[1]>> \o RemoveParens(Tail(s))

\* remove_symbols: every mark, symbol and punctuation becomes a space
RemoveSymbols(s) == [j \in 1..Len(s) |-> IF IsSymbol(s[j]) THEN " " ELSE s[j]]

\* re.sub(r"\s+", " ", s)
RECURSIVE CollapseSpaces(_)
CollapseSpaces(s) ==
    IF s = <<>> THEN <<>>
    ELSE IF IsSpace(s[1]) /\ Len(s) > 1 /\ IsSpace(s[2])
         THEN CollapseSpaces(Tail(s))
         ELSE <<s[1]>> \o CollapseSpaces(Tail(s))

\* BasicTextNormalizer.__call__ (remove_diacritics and split_letters False)
whisper_norm(s) ==
    CollapseSpaces(Lower(RemoveSymbols(RemoveParens(RemoveBrackets(Lower(s))))))

\* str.strip
RECURSIVE LStrip(_)
LStrip(s) == IF s # <<>> /\ IsSpace(s[1]) THEN LStrip(Tail(s)) ELSE s

RECURSIVE RStrip(_)
RStrip(s) ==
    IF s # <<>> /\ IsSpace(s[Len(s)]) THEN RStrip(SubSeq(s, 1, Len(s) - 1)) ELSE s

Strip(s) == RStrip(LStrip(s))

\* "ignore time segment in scoring"
Sentinel == <<"ignore", " ", "time", " ", "segment", " ", "in", " ", "scoring">>

\* mutant: the filter compares the reference without stripping it
is_target_text_in_range_nostrip(ref) ==
    IF ref = Sentinel THEN FALSE ELSE ref # <<>>

is_target_text_in_range(ref) ==
    IF Strip(ref) = Sentinel THEN FALSE ELSE Strip(ref) # <<>>

\* ---------------------------------------------------------------- get_text
\* a raised exception, as the value of the call that raises it
ValueError == <<"raise ValueError">>
ZeroDivisionError == <<"raise ZeroDivisionError">>

\* mutant: a sample without transcript column yields the empty string
get_text_silent(sample) ==
    IF "text" \in DOMAIN sample THEN sample["text"]
    ELSE IF "sentence" \in DOMAIN sample THEN sample["sentence"]
    ELSE IF "normalized_text" \in DOMAIN sample THEN sample["normalized_text"]
    ELSE IF "transcript" \in DOMAIN sample THEN sample["transcript"]
    ELSE IF "transcription" \in DOMAIN sample THEN sample["transcription"]
    ELSE <<>>

\* mutant: transcription is looked up before transcript
get_text_swapped(sample) ==
    IF "text" \in DOMAIN sample THEN sample["text"]
    ELSE IF "sentence" \in DOMAIN sample THEN sample["sentence"]
    ELSE IF "normalized_text" \in DOMAIN sample THEN sample["normalized_text"]
    ELSE IF "transcription" \in DOMAIN sample THEN sample["transcription"]
    ELSE IF "transcript" \in DOMAIN sample THEN sample["transcript"]
    ELSE ValueError

get_text(sample) ==
    IF "text" \in DOMAIN sample THEN sample["text"]
    ELSE IF "sentence" \in DOMAIN sample THEN sample["sentence"]
    ELSE IF "normalized_text" \in DOMAIN sample THEN sample["normalized_text"]
    ELSE IF "transcript" \in DOMAIN sample THEN sample["transcript"]
    ELSE IF "transcription" \in DOMAIN sample THEN sample["transcription"]
    ELSE ValueError

\* normalise(batch) raises what get_text raises, else adds the norm_text column
normalise(batch) ==
    IF get_text(batch) = ValueError THEN ValueError
    ELSE [c \in DOMAIN batch \cup {"norm_text"} |->
            IF c = "norm_text" THEN whisper_norm(get_text(batch)) ELSE batch[c]]

\* mutant: the generator starts at the second row
data_skip(ds) ==
    [j \in 1..(Len(ds) - 1) |->
        [array |-> ds[j + 1]["audio"].array,
         sampling_rate |-> ds[j + 1]["audio"].sampling_rate,
         reference |-> ds[j + 1]["norm_text"]]]

\* data(dataset): the audio dict of every row, spread, plus its reference
data(ds) ==
    [j \in 1..Len(ds) |->
        [array |-> ds[j]["audio"].array,
         sampling_rate |-> ds[j]["audio"].sampling_rate,
         reference |-> ds[j]["norm_text"]]]

\* ------------------------------------------------------------- wer metric
\* the words of a string: its maximal runs of atoms other than white space
RECURSIVE Words(_)
Words(s) ==
    IF s = <<>> THEN <<>>
    ELSE IF IsSpace(s[1]) THEN Words(Tail(s))
    ELSE LET e == FirstIn(s, 1, {" "})
             n == IF e = 0 THEN Len(s) ELSE e - 1
         IN  <<SubSeq(s, 1, n)>> \o Words(SubSeq(s, n + 1, Len(s)))

Min2(a, b) == IF a < b THEN a ELSE b

\* substitutions + deletions + insertions of the word alignment
RECURSIVE Lev(_, _)
Lev(a, b) ==
    IF a = <<>> THEN Len(b)
    ELSE IF b = <<>> THEN Len(a)
    ELSE IF a[1] = b[1] THEN Lev(Tail(a), Tail(b))
    ELSE 1 + Min2(Lev(Tail(a), Tail(b)), Min2(Lev(Tail(a), b), Lev(a, Tail(b))))

RECURSIVE Incorrect(_, _, _)
Incorrect(refs, preds, n) ==
    IF n > Min2(Len(refs), Len(preds)) THEN 0
    ELSE Lev(Words(refs[n]), Words(preds[n])) + Incorrect(refs, preds, n + 1)

\* substitutions + deletions + hits: the number of reference words
RECURSIVE Total(_, _, _)
Total(refs, preds, n) ==
    IF n > Min2(Len(refs), Len(preds)) THEN 0
    ELSE Len(Words(refs[n])) + Total(refs, preds, n + 1)

RECURSIVE GCD(_, _)
GCD(a, b) == IF b = 0 THEN a ELSE GCD(b, a % b)

\* the fraction n/d in lowest terms, d > 0
Fraction(n, d) == LET g == GCD(n, d) IN <<n \div g, d \div g>>

\* wer_metric.compute(references=, predictions=): incorrect / total over the
\* zipped pairs; lists of unequal length and an empty reference are refused,
\* no reference word at all divides by zero
wer_metric_compute(refs, preds) ==
    IF Len(refs) # Len(preds) THEN ValueError
    ELSE IF \E n \in 1..Min2(Len(refs), Len(preds)) : Words(refs[n]) = <<>>
    THEN ValueError
    ELSE LET total == Total(refs, preds, 1)
         IN  IF total = 0 THEN ZeroDivisionError
             ELSE Fraction(Incorrect(refs, preds, 1), total)

\* wer*100 of the printed line
Percent(wer) == Fraction(wer[1] * 100, wer[2])

\* ------------------------------------------------------------ environment
Languages == {"en", "fr"}
Configs == {"c1", "c2"}
TranscriptFields == {"text", "sentence", "normalized_text", "transcript", "transcription"}

\* all sequences over S of a length in lo..hi
SeqsOf(S, lo, hi) == UNION {[1..n -> S] : n \in lo..hi}

\* an audio column entry as stored, before resampling
Audio(a) == [array |-> a, sampling_rate |-> 48000]

\* "IGNORE_TIME_SEGMENT_IN_SCORING", the way corpora spell the sentinel
RawSentinel == <<"IGNORE", "_", "time", "_", "segment", "_", "in", "_", "SCORING">>

\* rows a dataset may hold: a plain one, one with two transcript columns, one
\* whose transcript normalises to white space, one marked with the sentinel,
\* one without any transcript column
Row1 == [c \in {"audio", "text"} |->
            IF c = "audio" THEN Audio("a1") ELSE <<"X", " ", "x", "_">>]
Row2 == [c \in {"audio", "sentence", "transcription"} |->
            IF c = "audio" THEN Audio("a2")
            ELSE IF c = "sentence" THEN <<"x">> ELSE <<"X", " ", "X">>]
Row3 == [c \in {"audio", "text"} |->
            IF c = "audio" THEN Audio("a3") ELSE <<" ", "(", "x", ")", "_">>]
Row4 == [c \in {"audio", "transcript"} |->
            IF c = "audio" THEN Audio("a4") ELSE RawSentinel]
Row5 == [c \in {"audio", "id"} |->
            IF c = "audio" THEN Audio("a5") ELSE <<"x">>]

\* the rows configuration "c1" is drawn from
Rows == {Row1, Row2, Row3, Row5}

\* the splits of configuration "c2", the same in every run; it holds the row
\* marked with the sentinel
FixedSplits == <<(<<Row2, Row4>>), (<<Row1>>)>>

\* get_decoder_prompt_ids(language=lang, task="transcribe")
get_decoder_prompt_ids(lang) == [language |-> lang, task |-> "transcribe"]

\* the checkpoint's own forced_decoder_ids, before main touches them
DefaultPrompt == [language |-> "auto", task |-> "transcribe"]

\* the model's raw transcription of an audio array under a forced prompt: a
\* fixed function, the model being fixed and inference deterministic
Transcribe(array, prompt) ==
    IF prompt.language = "auto" THEN <<"x">>
    ELSE IF prompt.language = "en" THEN
        CASE array = "a1" -> <<"X", " ", "[", "x", "]", "x", "_">>
          [] array = "a2" -> <<"x", "_", "_">>
          [] OTHER -> <<"x">>
    ELSE
        CASE array = "a1" -> <<"X">>
          [] array = "a2" -> <<>>
          [] OTHER -> <<"x", " ", "x">>

\* the pipeline called on the generator: one output per input, in order, the
\* extra key "reference" carried through as a one-element list
whisper_asr(inputs, prompt) ==
    [j \in 1..Len(inputs) |->
        [text |-> Transcribe(inputs[j].array, prompt),
         reference |-> <<inputs[j].reference>>]]

\* concatenate_datasets(list(dataset.values()))
RECURSIVE concatenate_datasets(_)
concatenate_datasets(splits) ==
    IF splits = <<>> THEN <<>> ELSE splits[1] \o concatenate_datasets(Tail(splits))

\* dataset.cast_column("audio", Audio(sampling_rate=16000))
cast_column(ds) ==
    [j \in 1..Len(ds) |->
        [c \in DOMAIN ds[j] |->
            IF c = "audio" THEN [ds[j][c] EXCEPT !.sampling_rate = 16000]
            ELSE ds[j][c]]]

\* zip(args.languages, args.configs)
Zip(a) == [j \in 1..Min2(Len(a.languages), Len(a.configs)) |->
            [lang |-> a.languages[j], config |-> a.configs[j]]]

\* ------------------------------------------------------------------- state
\* --max_eval_samples is absent (the default None) or <<N>>
NoCap == <<>>

\* get_text has not been called yet
Pending == <<"pending">>

\* a fresh process: the pipeline built, nothing evaluated yet
Fresh ==
    /\ pc = "loop"
    /\ i = 1
    /\ forced_decoder_ids = DefaultPrompt
    /\ dataset = <<>>
    /\ predictions = <<>>
    /\ references = <<>>
    /\ k = 0
    /\ stdout = <<>>
    /\ error = None

Init ==
    /\ args \in [languages : SeqsOf(Languages, 1, MaxArgs),
                  configs : SeqsOf(Configs, 1, MaxArgs),
                  max_eval_samples : {NoCap, <<1>>}]
    /\ \E rows \in SeqsOf(Rows, 0, MaxSamples) :
            hub = [c \in Configs |-> IF c = "c1" THEN <<rows>> ELSE FixedSplits]
    /\ Fresh
    /\ run = 1
    /\ prev = [stdout |-> <<>>, error |-> None]
    /\ gt_sample = Row1
    /\ gt_result = Pending

env == <<args, hub, run, prev, gt_sample, gt_result>>

\* mutant: the prompt is forced only while the checkpoint's own is in place
SetPromptOnce ==
    /\ pc = "loop"
    /\ i <= Len(Zip(args))
    /\ forced_decoder_ids' =
            (IF forced_decoder_ids = DefaultPrompt
             THEN get_decoder_prompt_ids(Zip(args)[i].lang)
             ELSE forced_decoder_ids)
    /\ pc' = "load"
    /\ UNCHANGED <<env, i, dataset, predictions, references, k, stdout, error>>

\* line 55: the loop takes the next (lang, config) pair and forces its prompt
SetPrompt ==
    /\ pc = "loop"
    /\ i <= Len(Zip(args))
    /\ forced_decoder_ids' = get_decoder_prompt_ids(Zip(args)[i].lang)
    /\ pc' = "load"
    /\ UNCHANGED <<env, i, dataset, predictions, references, k, stdout, error>>

\* the loop is exhausted and main returns
Return ==
    /\ pc = "loop"
    /\ i > Len(Zip(args))
    /\ pc' = "done"
    /\ UNCHANGED <<env, i, forced_decoder_ids, dataset, predictions, references,
                   k, stdout, error>>

\* mutant: --max_eval_samples honoured by keeping N rows picked at random
LoadSampled ==
    /\ pc = "load"
    /\ LET rows == cast_column(concatenate_datasets(hub[Zip(args)[i].config]))
       IN  IF args.max_eval_samples = NoCap \/ rows = <<>>
           THEN dataset' = rows
           ELSE \E j \in 1..Len(rows) : dataset' = <<rows[j]>>
    /\ pc' = "map"
    /\ UNCHANGED <<env, i, forced_decoder_ids, predictions, references, k,
                   stdout, error>>

\* lines 61-67: load every split, concatenate, resample
Load ==
    /\ pc = "load"
    /\ dataset' = cast_column(concatenate_datasets(hub[Zip(args)[i].config]))
    /\ pc' = "map"
    /\ UNCHANGED <<env, i, forced_decoder_ids, predictions, references, k,
                   stdout, error>>

\* line 68: dataset.map(normalise); the first row that raises ends the run
MapRows ==
    /\ pc = "map"
    /\ IF \E j \in 1..Len(dataset) : get_text(dataset[j]) = ValueError
       THEN /\ error' = "ValueError"
            /\ pc' = "error"
            /\ UNCHANGED dataset
       ELSE /\ dataset' = [j \in 1..Len(dataset) |-> normalise(dataset[j])]
            /\ pc' = "filter"
            /\ UNCHANGED error
    /\ UNCHANGED <<env, i, forced_decoder_ids, predictions, references, k, stdout>>

InRangeRow(row) == is_target_text_in_range(row["norm_text"])

\* line 69: dataset.filter(is_target_text_in_range, input_columns=["norm_text"])
Filter ==
    /\ pc = "filter"
    /\ dataset' = SelectSeq(dataset, InRangeRow)
    /\ pc' = "reset"
    /\ UNCHANGED <<env, i, forced_decoder_ids, predictions, references, k,
                   stdout, error>>

\* mutant: the lists are created once and never emptied
ResetKeep ==
    /\ pc = "reset"
    /\ k' = 0
    /\ pc' = "infer"
    /\ UNCHANGED <<env, i, forced_decoder_ids, dataset, predictions, references,
                   stdout, error>>

\* lines 71-72
Reset ==
    /\ pc = "reset"
    /\ predictions' = <<>>
    /\ references' = <<>>
    /\ k' = 0
    /\ pc' = "infer"
    /\ UNCHANGED <<env, i, forced_decoder_ids, dataset, stdout, error>>

\* line 75: what the pipeline yields for the generator over the dataset
Outputs == whisper_asr(data(dataset), forced_decoder_ids)

\* mutant: the pipeline's text is appended as it comes
InferRaw ==
    /\ pc = "infer"
    /\ k < Len(Outputs)
    /\ LET out == Outputs[k + 1]
       IN  /\ predictions' = Append(predictions, out.text)
           /\ references' = Append(references, out.reference[1])
    /\ k' = k + 1
    /\ UNCHANGED <<env, pc, i, forced_decoder_ids, dataset, stdout, error>>

\* lines 75-77: one turn of the inference loop, on the next pipeline output
Infer ==
    /\ pc = "infer"
    /\ k < Len(Outputs)
    /\ LET out == Outputs[k + 1]
       IN  /\ predictions' = Append(predictions, whisper_norm(out.text))
           /\ references' = Append(references, out.reference[1])
    /\ k' = k + 1
    /\ UNCHANGED <<env, pc, i, forced_decoder_ids, dataset, stdout, error>>

\* lines 79-81: the metric of the two lists, then the printed line
Score ==
    /\ pc = "infer"
    /\ k >= Len(Outputs)
    /\ LET wer == wer_metric_compute(references, predictions)
       IN  IF wer \in {ValueError, ZeroDivisionError}
           THEN /\ error' = (IF wer = ValueError THEN "ValueError"
                                                ELSE "ZeroDivisionError")
                /\ pc' = "error"
                /\ UNCHANGED <<i, stdout>>
           ELSE /\ stdout' = Append(stdout, [lang |-> Zip(args)[i].lang,
                                             wer |-> Percent(wer)])
                /\ i' = i + 1
                /\ pc' = "loop"
                /\ UNCHANGED error
    /\ UNCHANGED <<env, forced_decoder_ids, dataset, predictions, references, k>>

Next ==
    \/ SetPrompt
    \/ Return
    \/ Load
    \/ MapRows
    \/ Filter
    \/ Reset
    \/ Infer
    \/ Score

Spec == Init /\ [][Next]_vars

\* ------------------------------------------------------------ a second run
\* lines 131-133 and 49-53 again: the script is started once more on the same
\* arguments and the same hub; prev keeps what the first run printed and raised
Rerun ==
    /\ pc \in {"done", "error"}
    /\ run = 1
    /\ run' = 2
    /\ prev' = [stdout |-> stdout, error |-> error]
    /\ pc' = "loop"
    /\ i' = 1
    /\ forced_decoder_ids' = DefaultPrompt
    /\ dataset' = <<>>
    /\ predictions' = <<>>
    /\ references' = <<>>
    /\ k' = 0
    /\ stdout' = <<>>
    /\ error' = None
    /\ UNCHANGED <<args, hub, gt_sample, gt_result>>

NextRerun ==
    \/ Next
    \/ Rerun

SpecRerun == Init /\ [][NextRerun]_vars

\* ------------------------------------------------------- get_text by itself
\* every sample over the five transcript columns: each column is absent or
\* holds one of two texts
TextSamples ==
    UNION {{[c \in D \cup {"audio"} |-> IF c = "audio" THEN Audio("a1") ELSE f[c]] :
                f \in [D -> {<<"x">>, <<"X", "_">>}]} : D \in SUBSET TranscriptFields}

InitGetText ==
    /\ args = [languages |-> <<"en">>, configs |-> <<"c2">>, max_eval_samples |-> NoCap]
    /\ hub = [c \in Configs |-> FixedSplits]
    /\ Fresh
    /\ run = 1
    /\ prev = [stdout |-> <<>>, error |-> None]
    /\ gt_sample \in TextSamples
    /\ gt_result = Pending

CallGetText ==
    /\ gt_result = Pending
    /\ gt_result' = get_text(gt_sample)
    /\ UNCHANGED <<args, hub, pc, i, forced_decoder_ids, dataset, predictions,
                   references, k, stdout, error, run, prev, gt_sample>>

SpecGetText == InitGetText /\ [][CallGetText]_vars

\* ------------------------------------------------------------------ claims
\* the pair of the current iteration
Cur == Zip(args)[i]

\* every row of a configuration, by the hub, in split order
SourceRows(c) == concatenate_datasets(hub[c])

\* a reference the scoring must leave out
Excluded(ref) == Strip(ref) = <<>> \/ Strip(ref) = Sentinel

LacksAll(row) == DOMAIN row \cap TranscriptFields = {}

HasBadRow(c) == \E j \in 1..Len(SourceRows(c)) : LacksAll(SourceRows(c)[j])

RetainedRow(row) == ~Excluded(whisper_norm(get_text(row)))

\* the rows of a configuration that pass the filter, in dataset order
Retained(c) == SelectSeq(SourceRows(c), RetainedRow)

InIteration == pc \in {"load", "map", "filter", "reset", "infer"}

LoopDone == pc = "infer" /\ k = Len(Outputs)

\* C1: a sample whose normalised, stripped reference is empty or the sentinel
\* never contributes an entry to references or predictions: no excluded text
\* is ever in references, the filtered dataset holds no such row, and the two
\* lists hold one entry per row of the filtered dataset consumed so far.
C1_ExcludedNeverScored ==
    /\ \A j \in 1..Len(references) : ~Excluded(references[j])
    /\ pc \in {"reset", "infer"} =>
            \A j \in 1..Len(dataset) : ~Excluded(dataset[j]["norm_text"])
    /\ pc = "infer" => (Len(references) = k /\ Len(predictions) = k)

C1_Witness ==
    /\ LoopDone
    /\ k > 0
    /\ \E j \in 1..Len(SourceRows(Cur.config)) :
            /\ ~LacksAll(SourceRows(Cur.config)[j])
            /\ Excluded(whisper_norm(get_text(SourceRows(Cur.config)[j])))
            /\ get_text(SourceRows(Cur.config)[j]) # <<>>

\* C2: when a sample of the configuration has none of the five transcript
\* columns the run never gets past dataset.map, it ends in a ValueError, and no
\* WER line is printed for that language.
C2_MissingFieldFails ==
    /\ pc \in {"filter", "reset", "infer"} => ~HasBadRow(Cur.config)
    /\ \A j \in 1..Len(stdout) : ~HasBadRow(args.configs[j])
    /\ (pc = "error" /\ HasBadRow(Cur.config)) =>
            /\ error = "ValueError"
            /\ Len(stdout) = i - 1
    /\ pc = "done" => \A j \in 1..Len(Zip(args)) : ~HasBadRow(args.configs[j])

C2_Witness ==
    /\ pc = "error"
    /\ error = "ValueError"
    /\ HasBadRow(Cur.config)
    /\ Len(stdout) = 1

\* no upper case, no symbol or bracket, no run of white space
IsNormalised(s) ==
    /\ \A j \in 1..Len(s) : LowerAtom(s[j]) = s[j] /\ ~IsSymbol(s[j])
    /\ \A j \in 1..(Len(s) - 1) : ~(IsSpace(s[j]) /\ IsSpace(s[j + 1]))

\* C3: every reference and every prediction is in the normaliser's normal
\* form, the reference being whisper_norm of the row's raw transcript and the
\* prediction whisper_norm of the pipeline's raw text for the same row.
C3_BothNormalised ==
    /\ \A j \in 1..Len(references) : IsNormalised(references[j])
    /\ \A j \in 1..Len(predictions) : IsNormalised(predictions[j])
    /\ pc = "infer" =>
            \A j \in 1..Len(predictions) :
                /\ j <= Len(dataset)
                /\ j <= Len(references)
                /\ references[j] = whisper_norm(get_text(dataset[j]))
                /\ predictions[j] =
                       whisper_norm(Transcribe(dataset[j]["audio"].array,
                                               forced_decoder_ids))

C3_Witness ==
    /\ pc = "infer"
    /\ k >= 1
    /\ Len(predictions) >= 1
    /\ ~IsNormalised(get_text(dataset[1]))
    /\ ~IsNormalised(Transcribe(dataset[1]["audio"].array, forced_decoder_ids))

\* C4: a run that returns without error has printed one WER line for each
\* language of --languages, in the order of the arguments.
C4_OneLinePerLanguage ==
    pc = "done" =>
        /\ Len(stdout) = Len(args.languages)
        /\ \A j \in 1..Len(stdout) : stdout[j].lang = args.languages[j]

\* C5: with --max_eval_samples N no more than N entries are scored for a
\* language.
C5_CapRespected ==
    args.max_eval_samples # NoCap =>
        /\ Len(references) <= args.max_eval_samples[1]
        /\ Len(predictions) <= args.max_eval_samples[1]

\* the normalised transcripts of rows, one after the other
RECURSIVE RefsOf(_)
RefsOf(rows) ==
    IF rows = <<>> THEN <<>>
    ELSE <<whisper_norm(get_text(rows[1]))>> \o RefsOf(Tail(rows))

\* the normalised transcriptions of rows under the prompt of a language
RECURSIVE HypsOf(_, _)
HypsOf(rows, lang) ==
    IF rows = <<>> THEN <<>>
    ELSE <<whisper_norm(Transcribe(rows[1]["audio"].array,
                                   get_decoder_prompt_ids(lang)))>>
         \o HypsOf(Tail(rows), lang)

\* the metric of a pair computed from the hub alone
OwnWer(lang, c) ==
    LET kept == Retained(c)
    IN  wer_metric_compute(RefsOf(kept), HypsOf(kept, lang))

\* C6: both lists are empty when the inference loop of a pair starts, and
\* the WER just printed, each time the loop comes round, is the metric of that
\* pair's own configuration only.
C6_ListsReset ==
    /\ (pc = "infer" /\ k = 0) => (predictions = <<>> /\ references = <<>>)
    /\ (pc = "loop" /\ i > 1) =>
            stdout[i - 1].wer =
                Percent(OwnWer(args.languages[i - 1], args.configs[i - 1]))

C6_Witness ==
    /\ pc = "infer"
    /\ k = 0
    /\ i = 2
    /\ Len(stdout) = 1
    /\ Len(dataset) > 0

\* C7 as stated: no step of an iteration changes the shared pipeline's
\* forced decoder prompt.
C7_PipelineUntouched == [][forced_decoder_ids' = forced_decoder_ids]_vars

\* C7 amended: the forced decoder prompt is shared and overwritten by every
\* iteration before it loads its data, so that from then to the printed line
\* the prompt is the one of the iteration's own language.
C7_PromptIsOwn ==
    InIteration => forced_decoder_ids = get_decoder_prompt_ids(args.languages[i])

C7_Witness ==
    /\ pc = "infer"
    /\ i = 2
    /\ k > 0
    /\ args.languages[1] # args.languages[2]

\* C8: a second run on the same arguments and the same hub prints the same
\* WER lines as the first and ends the same way.
C8_SameOutput ==
    (run = 2 /\ pc \in {"done", "error"}) =>
        (stdout = prev.stdout /\ error = prev.error)

C8_Witness ==
    /\ run = 2
    /\ pc = "done"
    /\ Len(stdout) = 2
    /\ stdout[1].wer # stdout[2].wer

Priority == <<"text", "sentence", "normalized_text", "transcript", "transcription">>

Present(sample) == {j \in 1..Len(Priority) : Priority[j] \in DOMAIN sample}

\* C9: get_text returns the value of the first column present in the order
\* text, sentence, normalized_text, transcript, transcription, and raises
\* exactly when none of the five is present.
C9_FirstPresentField ==
    gt_result # Pending =>
        IF Present(gt_sample) = {}
        THEN gt_result = ValueError
        ELSE \E j \in Present(gt_sample) :
                /\ \A m \in Present(gt_sample) : j <= m
                /\ gt_result = gt_sample[Priority[j]]

C9_Witness ==
    /\ gt_result # Pending
    /\ Present(gt_sample) = {4, 5}
    /\ gt_sample["transcript"] # gt_sample["transcription"]

\* C10: when the inference loop of a pair is over, predictions and references
\* have the length of the configuration's retained rows and entry j of each
\* comes from the j-th retained row.
C10_OneEntryPerRetainedRow ==
    LoopDone =>
        LET kept == Retained(Cur.config)
        IN  /\ Len(predictions) = Len(kept)
            /\ Len(references) = Len(kept)
            /\ references = RefsOf(kept)
            /\ predictions = HypsOf(kept, Cur.lang)

C10_Witness ==
    /\ LoopDone
    /\ Len(predictions) = 2
    /\ Len(SourceRows(Cur.config)) > 2

====
